---- MODULE Spec2Model ----
(***************************************************************************)
(* Model of the include-expanding preprocessor of src/main.cpp:            *)
(* Preprocess opens the input and the output file and calls the recursive  *)
(* ProcessInclude, which copies plain lines to the output and replaces     *)
(* every #include line by the expansion of the file it resolves to.        *)
(*                                                                         *)
(* Text is modelled at token level: a line, a directive name and a path    *)
(* are sequences of one-character strings ("s" stands for one whitespace   *)
(* character, "q" for the double quote), and the word include is one       *)
(* token.  The recursion of ProcessInclude is an explicit stack of frames. *)
(* The file system does not change during a run.                           *)
(***************************************************************************)
EXTENDS Integers, Sequences, FiniteSets, TLC

VARIABLES
    files,           \* file system: existing path -> sequence of lines
    unreadable,      \* existing paths that an ifstream cannot open
    outputOpenable,  \* whether the output path can be opened for writing
    pc,              \* position of Preprocess: "start", "run", "done"
    result,          \* value returned by Preprocess (meaningful at "done")
    stack,           \* active ProcessInclude calls, innermost last
    cout,            \* messages written to standard output
    outFile,         \* lines of the output file on disk
    ofs,             \* the ofstream of Preprocess: "none", "open", "fail"
    openFiles,       \* paths of the open ifstreams of ProcessInclude calls
    mline,           \* matcher study: the line typed so far
    mcount,          \* matcher study: number of pieces typed
    mclass           \* matcher study: classification of mline

vars == <<files, unreadable, outputOpenable, pc, result, stack, cout,
         outFile, ofs, openFiles, mline, mcount, mclass, openFiles>>

----------------------------------------------------------------------------
(* Bounds *)

MaxLines  == 3   \* lines of the top-level file
MaxDepth  == 4   \* include nesting explored (the code has no limit)
MaxPieces == 6   \* pieces a typed line is built from

----------------------------------------------------------------------------
(* Sequence helpers *)

Last(s) == s[Len(s)]

Min(S) == CHOOSE m \in S : \A n \in S : m <= n

Max(S) == CHOOSE m \in S : \A n \in S : n <= m

IsPrefix(s, t) == Len(s) <= Len(t) /\ SubSeq(t, 1, Len(s)) = s

----------------------------------------------------------------------------
(* std::filesystem::path, for relative paths in generic format *)

Slashes(p) == {k \in 1..Len(p) : p[k] = "/"}

\* path::parent_path
ParentPath(p) ==
    IF Slashes(p) = {} THEN <<>>
    ELSE IF Max(Slashes(p)) = 1 THEN <<"/">>
    ELSE SubSeq(p, 1, Max(Slashes(p)) - 1)

\* path::filename
Filename(p) ==
    IF Slashes(p) = {} THEN p
    ELSE SubSeq(p, Max(Slashes(p)) + 1, Len(p))

\* operator/ of path
Join(dir, name) ==
    IF name # <<>> /\ name[1] = "/" THEN name
    ELSE IF dir = <<>> THEN name
    ELSE IF Last(dir) = "/" THEN dir \o name
    ELSE dir \o <<"/">> \o name

\* filesystem::exists
Exists(p) == p \in DOMAIN files

\* ifstream::is_open after construction from a path
CanOpen(p) == p \in DOMAIN files /\ p \notin unreadable

----------------------------------------------------------------------------
(* The two regular expressions and regex_search *)

IsSpace(c) == c = "s"

\* \s* from position i: the position of the first non-space token at or
\* after i (Len(line)+1 when there is none)
SkipSpaces(line, i) ==
    Min({j \in i..(Len(line) + 1) :
            j = Len(line) + 1 \/ ~IsSpace(line[j])})

\* # \s* include \s* open [^close]* close, with the # at position i:
\* 0 when there is no match there, else the position of the open delimiter
MatchAt(line, i, open, close) ==
    IF i > Len(line) \/ line[i] # "#" THEN 0
    ELSE LET j == SkipSpaces(line, i + 1) IN
         IF j > Len(line) \/ line[j] # "include" THEN 0
         ELSE LET k == SkipSpaces(line, j + 1) IN
              IF k > Len(line) \/ line[k] # open THEN 0
              ELSE IF \E m \in (k + 1)..Len(line) : line[m] = close
                   THEN k ELSE 0

\* regex_search(line, match, re): the leftmost match; name is match[1]
RegexSearch(line, open, close) ==
    LET starts == {i \in 1..Len(line) : MatchAt(line, i, open, close) # 0}
    IN  IF starts = {} THEN [matched |-> FALSE, name |-> <<>>]
        ELSE LET k == MatchAt(line, Min(starts), open, close)
                 m == Min({n \in (k + 1)..Len(line) : line[n] = close})
             IN  [matched |-> TRUE, name |-> SubSeq(line, k + 1, m - 1)]

include_local(line) == RegexSearch(line, "q", "q")

include_global(line) == RegexSearch(line, "<", ">")

\* the if / else if / else of the loop body
Classify(line) ==
    IF include_local(line).matched
    THEN [kind |-> "local", name |-> include_local(line).name]
    ELSE IF include_global(line).matched
    THEN [kind |-> "global", name |-> include_global(line).name]
    ELSE [kind |-> "plain", name |-> <<>>]

----------------------------------------------------------------------------
(* Inputs: the arguments of Preprocess and the files on disk *)

InputFile == <<"s", "/", "a">>

OutputFile == <<"s", "/", "o">>

IncludeDirs == << <<"i">>, <<"j">> >>

\* what the output file holds before the run
OldOutput == << <<"o", "l", "d">> >>

BPaths == {<<"s", "/", "b">>, <<"i", "/", "b">>, <<"j", "/", "b">>}

CPaths == {<<"j", "/", "c">>}

Digits == <<"1", "2", "3", "4", "5", "6", "7", "8", "9">>

\* the text of a line of kind k at line n of file p; a plain line carries
\* the directory, the name and the line number of its file
LineText(p, k, n) ==
    CASE k = "t"  -> <<"x", p[1], p[3], Digits[n]>>
      [] k = "lb" -> <<"#", "include", "s", "q", "b", "q">>
      [] k = "gb" -> <<"s", "#", "s", "include", "<", "b", ">", "s">>
      [] k = "lc" -> <<"#", "s", "include", "q", "c", "q">>
      [] k = "gc" -> <<"#", "include", "s", "<", "c", ">">>
      [] k = "eb" -> <<"x", "s", "#", "include", "s", "q", "b", "q">>

Content(p, kinds) == [n \in 1..Len(kinds) |-> LineText(p, kinds[n], n)]

TopKinds == {"t", "lb", "gb"}

\* the bodies over TopKinds, and one with a directive after other text
TopBodies == UNION {[1..n -> TopKinds] : n \in 0..MaxLines} \cup {<<"t", "eb">>}

BBodies == {<<"t">>, <<"t", "gc", "t">>, <<"lc", "t">>, <<"lb">>,
            <<"gc", "lb">>}

CBody == <<"t">>

\* every line a file of the fixture may hold
FixtureLines ==
    {LineText(p, k, n) : p \in {InputFile} \cup BPaths \cup CPaths,
                         k \in {"t", "lb", "gb", "lc", "gc", "eb"},
                         n \in 1..Len(Digits)}

\* the classification of the lines of the fixture, worked out once
LineClass == [line \in FixtureLines |-> Classify(line)]

----------------------------------------------------------------------------
(* Messages on standard output *)

\* "unknown include file <name> at file <file> at line <line>"
UnknownMsg(name, file, line) ==
    [kind |-> "unknown", name |-> name, file |-> file, line |-> line]

\* the two messages of Preprocess
DriverMsg(kind, file) ==
    [kind |-> kind, name |-> <<>>, file |-> file, line |-> 0]

Unknowns == {k \in 1..Len(cout) : cout[k].kind = "unknown"}

----------------------------------------------------------------------------
(* ProcessInclude: frames and resolution *)

\* slip: the line counter goes on from the line of the directive
NewFrameCountOn(current_file, source_file, source_line) ==
    [file |-> current_file, source_file |-> source_file,
     source_line |-> source_line, pos |-> 0, line_number |-> source_line,
     success |-> TRUE, pc |-> "open"]

\* a call of ProcessInclude: its parameters and locals; pos is the read
\* position of the ifstream input, in lines
NewFrame(current_file, source_file, source_line) ==
    [file |-> current_file, source_file |-> source_file,
     source_line |-> source_line, pos |-> 0, line_number |-> 0,
     success |-> TRUE, pc |-> "open"]

Top == stack[Len(stack)]

SetTop(f) == [stack EXCEPT ![Len(stack)] = f]

\* getline succeeded: line_number++
Advance(f) == [f EXCEPT !.pos = @ + 1, !.line_number = @ + 1]

\* slip: success = false without the break
FailIncludeNoBreak(f) == [f EXCEPT !.success = FALSE]

\* slip: break without success = false
FailIncludeKeepSuccess(f) == [f EXCEPT !.pc = "ret"]

\* success = false; break;
FailInclude(f) == [f EXCEPT !.success = FALSE, !.pc = "ret"]

\* slip: the included file is put aside and expanded after the current one
CallDeferred(stk, f) == <<f>> \o stk

\* the recursive call
Call(stk, f) == Append(stk, f)

\* output << line << endl
Emit(out, line) == Append(out, line)

\* slip: the loop over include_dirs has no break, the last directory wins
FindInDirsLast(name) ==
    LET hits == {k \in 1..Len(IncludeDirs) :
                    Exists(Join(IncludeDirs[k], name))}
    IN  IF hits = {}
        THEN [found |-> FALSE, full_path |-> <<>>]
        ELSE [found |-> TRUE,
              full_path |-> Join(IncludeDirs[Max(hits)], name)]

\* for (const auto &dir : include_dirs): the first directory that has name
FindInDirs(name) ==
    LET hits == {k \in 1..Len(IncludeDirs) :
                    Exists(Join(IncludeDirs[k], name))}
    IN  IF hits = {}
        THEN [found |-> FALSE, full_path |-> <<>>]
        ELSE [found |-> TRUE,
              full_path |-> Join(IncludeDirs[Min(hits)], name)]

\* slip: the search list is tried before the directory of current_file
ResolveLocalSearchFirst(current_file, name) ==
    IF FindInDirs(name).found
    THEN FindInDirs(name)
    ELSE [found |-> Exists(Join(ParentPath(current_file), name)),
          full_path |-> Join(ParentPath(current_file), name)]

\* #include "name" in current_file
ResolveLocal(current_file, name) ==
    IF Exists(Join(ParentPath(current_file), name))
    THEN [found |-> TRUE,
          full_path |-> Join(ParentPath(current_file), name)]
    ELSE FindInDirs(name)

\* slip: a global directive tries the directory of current_file as well
ResolveGlobalRelativeFirst(current_file, name) ==
    ResolveLocal(current_file, name)

\* #include <name> in current_file
ResolveGlobal(current_file, name) == FindInDirs(name)

\* slip: a call that fails leaves without closing its file
ReleaseOnSuccess(open, stk) ==
    IF Len(open) = Len(stk) /\ Last(stk).success
    THEN SubSeq(open, 1, Len(stk) - 1)
    ELSE open

\* the ifstream of the returning call goes out of scope: its file, when one
\* was opened, is closed
Release(open, stk) ==
    IF Len(open) = Len(stk)
    THEN SubSeq(open, 1, Len(stk) - 1)
    ELSE open

\* the line getline is about to read in frame f
NextLine(f) == files[f.file][f.pos + 1]

AtLine(f) == f.pc = "loop" /\ f.pos < Len(files[f.file])

----------------------------------------------------------------------------
(* Initial states *)

\* the files a run may find on disk: fs maps the existing paths to their
\* lines, ur holds the existing paths that cannot be opened
Fixture(fs, ur) ==
    \E mode \in {"missing", "unreadable", "ok"}, top \in TopBodies,
       bk \in BBodies, bE \in SUBSET BPaths, cE \in SUBSET CPaths :
      /\ mode # "ok" => top = <<>>
      /\ \E u \in {{}} \cup {{p} : p \in bE \cup cE} :
           /\ ur = u \cup (IF mode = "unreadable" THEN {InputFile} ELSE {})
           /\ fs = [p \in bE \cup cE \cup
                          (IF mode = "missing" THEN {} ELSE {InputFile}) |->
                       IF p \in u \/ (p = InputFile /\ mode = "unreadable")
                       THEN <<>>
                       ELSE IF p = InputFile THEN Content(p, top)
                       ELSE IF p \in BPaths THEN Content(p, bk)
                       ELSE Content(p, CBody)]

Init ==
    /\ Fixture(files, unreadable)
    /\ outputOpenable \in BOOLEAN
    /\ pc = "start"
    /\ result = FALSE
    /\ stack = <<>>
    /\ cout = <<>>
    /\ outFile = OldOutput
    /\ ofs = "none"
    /\ openFiles = <<>>
    /\ mline = <<>>
    /\ mcount = 0
    /\ mclass = Classify(<<>>)

----------------------------------------------------------------------------
(* Actions *)

\* slip: the result of opening the output file is not tested
PreprocessNoOutputCheck ==
    /\ pc = "start"
    /\ IF ~CanOpen(InputFile)
       THEN /\ cout' = Append(cout, DriverMsg("input", InputFile))
            /\ pc' = "done"
            /\ result' = FALSE
            /\ UNCHANGED <<ofs, outFile, stack>>
       ELSE /\ ofs' = IF outputOpenable THEN "open" ELSE "fail"
            /\ outFile' = IF outputOpenable THEN <<>> ELSE outFile
            /\ stack' = <<NewFrame(InputFile, <<>>, 0)>>
            /\ pc' = "run"
            /\ UNCHANGED <<cout, result>>
    /\ UNCHANGED <<files, unreadable, outputOpenable, mline, mcount, mclass,
                   openFiles>>

\* slip: the output file is opened before the input file is tested
PreprocessOutputFirst ==
    /\ pc = "start"
    /\ IF ~outputOpenable
       THEN /\ ofs' = "fail"
            /\ cout' = Append(cout, DriverMsg("output", OutputFile))
            /\ pc' = "done"
            /\ result' = FALSE
            /\ UNCHANGED <<outFile, stack>>
       ELSE IF ~CanOpen(InputFile)
       THEN /\ ofs' = "open"
            /\ outFile' = <<>>
            /\ cout' = Append(cout, DriverMsg("input", InputFile))
            /\ pc' = "done"
            /\ result' = FALSE
            /\ UNCHANGED stack
       ELSE /\ ofs' = "open"
            /\ outFile' = <<>>
            /\ stack' = <<NewFrame(InputFile, <<>>, 0)>>
            /\ pc' = "run"
            /\ UNCHANGED <<cout, result>>
    /\ UNCHANGED <<files, unreadable, outputOpenable, mline, mcount, mclass,
                   openFiles>>

\* Preprocess up to the call of ProcessInclude
Preprocess ==
    /\ pc = "start"
    /\ IF ~CanOpen(InputFile)
       THEN /\ cout' = Append(cout, DriverMsg("input", InputFile))
            /\ pc' = "done"
            /\ result' = FALSE
            /\ UNCHANGED <<ofs, outFile, stack>>
       ELSE IF ~outputOpenable
       THEN /\ ofs' = "fail"
            /\ cout' = Append(cout, DriverMsg("output", OutputFile))
            /\ pc' = "done"
            /\ result' = FALSE
            /\ UNCHANGED <<outFile, stack>>
       ELSE /\ ofs' = "open"
            /\ outFile' = <<>>
            /\ stack' = <<NewFrame(InputFile, <<>>, 0)>>
            /\ pc' = "run"
            /\ UNCHANGED <<cout, result>>
    /\ UNCHANGED <<files, unreadable, outputOpenable, mline, mcount, mclass,
                   openFiles>>

\* slip: the message names the whole path of the file
OpenFileFullPath ==
    /\ pc = "run" /\ stack # <<>> /\ Top.pc = "open"
    /\ IF ~CanOpen(Top.file)
       THEN /\ cout' = IF Top.source_file # <<>>
                       THEN Append(cout, UnknownMsg(Top.file,
                                        Top.source_file, Top.source_line))
                       ELSE cout
            /\ stack' = SetTop([Top EXCEPT !.success = FALSE, !.pc = "ret"])
            /\ openFiles' = openFiles
       ELSE /\ stack' = SetTop([Top EXCEPT !.pc = "loop"])
            /\ openFiles' = Append(openFiles, Top.file)
            /\ cout' = cout
    /\ UNCHANGED <<files, unreadable, outputOpenable, pc, result, outFile,
                   ofs, mline, mcount, mclass>>

\* ProcessInclude: ifstream input(current_file) and the is_open test
OpenFile ==
    /\ pc = "run" /\ stack # <<>> /\ Top.pc = "open"
    /\ IF ~CanOpen(Top.file)
       THEN /\ cout' = IF Top.source_file # <<>>
                       THEN Append(cout, UnknownMsg(Filename(Top.file),
                                        Top.source_file, Top.source_line))
                       ELSE cout
            /\ stack' = SetTop([Top EXCEPT !.success = FALSE, !.pc = "ret"])
            /\ openFiles' = openFiles
       ELSE /\ stack' = SetTop([Top EXCEPT !.pc = "loop"])
            /\ openFiles' = Append(openFiles, Top.file)
            /\ cout' = cout
    /\ UNCHANGED <<files, unreadable, outputOpenable, pc, result, outFile,
                   ofs, mline, mcount, mclass>>

\* one iteration of the loop on a line that is no directive
CopyLine ==
    /\ pc = "run" /\ stack # <<>> /\ AtLine(Top)
    /\ LineClass[NextLine(Top)].kind = "plain"
    /\ outFile' = Emit(outFile, NextLine(Top))
    /\ stack' = SetTop(Advance(Top))
    /\ UNCHANGED <<files, unreadable, outputOpenable, pc, result, cout, ofs,
                   mline, mcount, mclass, openFiles>>

\* slip that is none: a file that is being expanded is not entered again
IncludeGuarded(f, name, r) ==
    IF ~r.found \/ \E k \in 1..Len(stack) : stack[k].file = r.full_path
    THEN /\ cout' = Append(cout, UnknownMsg(name, f.file, f.line_number))
         /\ stack' = SetTop(FailInclude(f))
    ELSE /\ Len(stack) < MaxDepth
         /\ stack' = Call(SetTop(f),
                          NewFrame(r.full_path, f.file, f.line_number))
         /\ cout' = cout

\* the common part of the two directive branches: report or recurse
Include(f, name, r) ==
    IF ~r.found
    THEN /\ cout' = Append(cout, UnknownMsg(name, f.file, f.line_number))
         /\ stack' = SetTop(FailInclude(f))
    ELSE /\ Len(stack) < MaxDepth
         /\ stack' = Call(SetTop(f),
                          NewFrame(r.full_path, f.file, f.line_number))
         /\ cout' = cout

\* one iteration of the loop on #include "..."
LocalInclude ==
    /\ pc = "run" /\ stack # <<>> /\ AtLine(Top)
    /\ LineClass[NextLine(Top)].kind = "local"
    /\ Include(Advance(Top), LineClass[NextLine(Top)].name,
               ResolveLocal(Top.file, LineClass[NextLine(Top)].name))
    /\ UNCHANGED <<files, unreadable, outputOpenable, pc, result, outFile,
                   ofs, mline, mcount, mclass, openFiles>>

\* one iteration of the loop on #include <...>
GlobalInclude ==
    /\ pc = "run" /\ stack # <<>> /\ AtLine(Top)
    /\ LineClass[NextLine(Top)].kind = "global"
    /\ Include(Advance(Top), LineClass[NextLine(Top)].name,
               ResolveGlobal(Top.file, LineClass[NextLine(Top)].name))
    /\ UNCHANGED <<files, unreadable, outputOpenable, pc, result, outFile,
                   ofs, mline, mcount, mclass, openFiles>>

\* slip: the loop does not end at end of file
EndOfFileSpin ==
    /\ pc = "run" /\ stack # <<>>
    /\ Top.pc = "loop" /\ Top.pos = Len(files[Top.file])
    /\ UNCHANGED vars

\* getline fails at end of file: the loop ends, return success
EndOfFile ==
    /\ pc = "run" /\ stack # <<>>
    /\ Top.pc = "loop" /\ Top.pos = Len(files[Top.file])
    /\ stack' = SetTop([Top EXCEPT !.pc = "ret"])
    /\ UNCHANGED <<files, unreadable, outputOpenable, pc, result, cout,
                   outFile, ofs, mline, mcount, mclass, openFiles>>

\* slip: the caller reports the failed include once more
ReturnToCallerReporting ==
    /\ pc = "run" /\ Len(stack) > 1 /\ Top.pc = "ret"
    /\ stack' = LET caller == stack[Len(stack) - 1] IN
                Append(SubSeq(stack, 1, Len(stack) - 2),
                       IF Top.success THEN caller ELSE FailInclude(caller))
    /\ cout' = IF Top.success THEN cout
               ELSE Append(cout, UnknownMsg(Filename(Top.file),
                                Top.source_file, Top.source_line))
    /\ openFiles' = Release(openFiles, stack)
    /\ UNCHANGED <<files, unreadable, outputOpenable, pc, result,
                   outFile, ofs, mline, mcount, mclass>>

\* a nested call returns into the if of its caller
ReturnToCaller ==
    /\ pc = "run" /\ Len(stack) > 1 /\ Top.pc = "ret"
    /\ stack' = LET caller == stack[Len(stack) - 1] IN
                Append(SubSeq(stack, 1, Len(stack) - 2),
                       IF Top.success THEN caller ELSE FailInclude(caller))
    /\ openFiles' = Release(openFiles, stack)
    /\ UNCHANGED <<files, unreadable, outputOpenable, pc, result, cout,
                   outFile, ofs, mline, mcount, mclass>>

\* slip: a failed run discards what it has written
ReturnToPreprocessRollback ==
    /\ pc = "run" /\ Len(stack) = 1 /\ Top.pc = "ret"
    /\ pc' = "done"
    /\ result' = Top.success
    /\ stack' = <<>>
    /\ outFile' = IF Top.success THEN outFile ELSE <<>>
    /\ openFiles' = Release(openFiles, stack)
    /\ UNCHANGED <<files, unreadable, outputOpenable, cout, ofs,
                   mline, mcount, mclass>>

\* the outermost call returns into Preprocess, which returns its value
ReturnToPreprocess ==
    /\ pc = "run" /\ Len(stack) = 1 /\ Top.pc = "ret"
    /\ pc' = "done"
    /\ result' = Top.success
    /\ stack' = <<>>
    /\ openFiles' = Release(openFiles, stack)
    /\ UNCHANGED <<files, unreadable, outputOpenable, cout, outFile, ofs,
                   mline, mcount, mclass>>

Next ==
    \/ Preprocess
    \/ OpenFile
    \/ CopyLine
    \/ LocalInclude
    \/ GlobalInclude
    \/ EndOfFile
    \/ ReturnToCaller
    \/ ReturnToPreprocess

Spec == Init /\ [][Next]_vars

\* the program is sequential and runs on: a step that can be taken is taken
FairSpec == Spec /\ WF_vars(Next)

----------------------------------------------------------------------------
(* The matcher alone: lines are typed piece by piece and classified *)

Pieces == {<<"s">>, <<"x">>, <<"q">>, <<"<">>, <<">">>, <<"#">>,
           <<"include">>, <<"#", "include">>}

InitMatch ==
    /\ files = [p \in {InputFile} |-> <<>>]
    /\ unreadable = {}
    /\ outputOpenable = TRUE
    /\ pc = "match"
    /\ result = FALSE
    /\ stack = <<>>
    /\ cout = <<>>
    /\ outFile = <<>>
    /\ ofs = "none"
    /\ openFiles = <<>>
    /\ mline = <<>>
    /\ mcount = 0
    /\ mclass = Classify(<<>>)

TypePiece ==
    /\ pc = "match"
    /\ mcount < MaxPieces
    /\ \E piece \in Pieces :
         /\ mline' = mline \o piece
         /\ mclass' = Classify(mline \o piece)
    /\ mcount' = mcount + 1
    /\ UNCHANGED <<files, unreadable, outputOpenable, pc, result, stack,
                   cout, outFile, ofs, openFiles>>

NextMatch == TypePiece

SpecMatch == InitMatch /\ [][NextMatch]_vars

----------------------------------------------------------------------------
(* Vocabulary of the properties *)

\* candidate k of the search list for name
Candidate(k, name) == Join(IncludeDirs[k], name)

InNoSearchDir(name) ==
    \A k \in 1..Len(IncludeDirs) : ~Exists(Candidate(k, name))

\* the top frame is about to read a directive of this kind and the step
\* acts on it
DirectiveStep(kind) ==
    /\ pc = "run" /\ stack # <<>> /\ AtLine(Top)
    /\ Classify(NextLine(Top)).kind = kind
    /\ stack' # stack

DirectiveName == Classify(NextLine(Top)).name

Pushed == Len(stack') = Len(stack) + 1

\* the step reports the directive as unresolved and recurses into nothing
ReportedUnresolved ==
    /\ Len(stack') = Len(stack)
    /\ cout' = Append(cout, UnknownMsg(DirectiveName, Top.file, Top.pos + 1))
    /\ ~Last(stack').success

\* the run got as far as calling ProcessInclude and ended in failure
IncludeFailure == pc = "done" /\ ofs = "open" /\ ~result

----------------------------------------------------------------------------
(* C1 *)

\* C1: once an include has been reported as unknown, no further line of any
\* file is read, no further call is made and the output does not change any
\* more (the step that reports it writes nothing either), and Preprocess
\* returns false.
C1_FailureShortCircuit ==
    /\ [](pc = "done" /\ Unknowns # {} => result = FALSE)
    /\ [][Unknowns' # Unknowns => outFile' = outFile]_vars
    /\ [][Unknowns # {} =>
            /\ outFile' = outFile
            /\ Len(stack') <= Len(stack)
            /\ \A k \in 1..Len(stack') : stack'[k].pos = stack[k].pos]_vars

\* a global directive at line 2 of a three-line input is in no search
\* directory: the run is over, false, with line 1 alone in the output
C1_Witness ==
    /\ IncludeFailure
    /\ Len(files[InputFile]) = 3
    /\ Classify(files[InputFile][1]).kind = "plain"
    /\ Classify(files[InputFile][2]).kind = "global"
    /\ InNoSearchDir(Classify(files[InputFile][2]).name)
    /\ outFile = <<files[InputFile][1]>>
    /\ cout = <<UnknownMsg(<<"b">>, InputFile, 2)>>

----------------------------------------------------------------------------
(* C2 *)

\* C2: expansion is depth-first and eager.  A call is entered directly
\* above the frame of the file that holds the directive, which stays at the
\* directive's line for as long as any frame is above it; every line written
\* is the line just read by the innermost frame.
C2_DepthFirst ==
    [][stack # <<>> =>
        /\ \A k \in 1..(Len(stack) - 1) :
              k <= Len(stack') =>
                 /\ stack'[k].file = stack[k].file
                 /\ stack'[k].pos = stack[k].pos
        /\ outFile' # outFile =>
              /\ Len(stack') = Len(stack)
              /\ AtLine(Top)
              /\ outFile' = Append(outFile, NextLine(Top))
              /\ Last(stack').pos = Top.pos + 1
        /\ Len(stack') > Len(stack) =>
              /\ Pushed
              /\ AtLine(Top)
              /\ stack'[Len(stack)].file = Top.file
              /\ stack'[Len(stack)].pos = Top.pos + 1
              /\ Last(stack').source_file = Top.file
              /\ Last(stack').source_line = Top.pos + 1
              /\ Last(stack').pos = 0]_vars

\* the included file has written its line while the including file waits
\* at the directive of its line 2, with its own line 1 already written
C2_Witness ==
    /\ Len(stack) = 2
    /\ stack[1].file = InputFile /\ stack[1].pos = 2
    /\ Len(files[InputFile]) = 3
    /\ stack[2].pos = 1
    /\ outFile = <<files[InputFile][1], files[stack[2].file][1]>>

----------------------------------------------------------------------------
(* C3 *)

\* the whole line is: spaces, the directive, spaces
WholeLine(line, open, close) ==
    \E i \in 1..Len(line) :
       /\ \A h \in 1..(i - 1) : IsSpace(line[h])
       /\ MatchAt(line, i, open, close) # 0
       /\ LET k == MatchAt(line, i, open, close)
              m == Min({n \in (k + 1)..Len(line) : line[n] = close})
          IN  \A h \in (m + 1)..Len(line) : IsSpace(line[h])

\* C3: a line is treated as a directive only when the whole line matches
\* the directive pattern; a line with other text before the # or after the
\* closing delimiter is plain text.
C3_WholeLineOnly ==
    mclass.kind # "plain" =>
        WholeLine(mline, "q", "q") \/ WholeLine(mline, "<", ">")

----------------------------------------------------------------------------
(* C4 *)

\* C4: a step on a local directive enters dir(F)/name whenever that exists;
\* otherwise it enters the first candidate of the search list that exists,
\* or reports the directive when there is none.
C4_LocalOrder ==
    [][DirectiveStep("local") =>
        LET rel == Join(ParentPath(Top.file), DirectiveName) IN
        IF Exists(rel)
        THEN Pushed /\ Last(stack').file = rel
        ELSE \/ \E k \in 1..Len(IncludeDirs) :
                   /\ Exists(Candidate(k, DirectiveName))
                   /\ \A j \in 1..(k - 1) :
                         ~Exists(Candidate(j, DirectiveName))
                   /\ Pushed
                   /\ Last(stack').file = Candidate(k, DirectiveName)
             \/ /\ InNoSearchDir(DirectiveName)
                /\ ReportedUnresolved]_vars

\* the relative file was entered although both search directories have
\* the name too
C4_Witness ==
    /\ Len(stack) = 2
    /\ stack[1].file = InputFile
    /\ Classify(files[InputFile][stack[1].pos]).kind = "local"
    /\ stack[2].file = <<"s", "/", "b">>
    /\ Exists(<<"i", "/", "b">>) /\ Exists(<<"j", "/", "b">>)
    /\ stack[2].pc = "loop"

----------------------------------------------------------------------------
(* C5 *)

\* C5: a step on a global directive whose name is in no search directory
\* reports it as unresolved, also when dir(F)/name exists; a file entered
\* by a global directive is always a candidate of the search list.
C5_GlobalNeverRelative ==
    [][DirectiveStep("global") =>
        IF InNoSearchDir(DirectiveName)
        THEN ReportedUnresolved
        ELSE /\ Pushed
             /\ \E k \in 1..Len(IncludeDirs) :
                   /\ Exists(Candidate(k, DirectiveName))
                   /\ Last(stack').file = Candidate(k, DirectiveName)]_vars

\* <b> was reported although the file exists next to the including file
C5_Witness ==
    /\ IncludeFailure
    /\ Exists(<<"s", "/", "b">>)
    /\ InNoSearchDir(<<"b">>)
    /\ Len(cout) = 1
    /\ cout[1] = UnknownMsg(<<"b">>, InputFile, cout[1].line)
    /\ Classify(files[InputFile][cout[1].line]).kind = "global"

----------------------------------------------------------------------------
(* C6 *)

\* C6: there is never more than one unknown-include message; a call that
\* has failed is the innermost one or is about to return, and from the
\* first failure on there is exactly one message, also when the run ends.
C6_OneDiagnostic ==
    /\ Cardinality(Unknowns) <= 1
    /\ \A k \in 1..Len(stack) :
          ~stack[k].success =>
              /\ k = Len(stack)
              /\ stack[k].pc = "ret"
              /\ Cardinality(Unknowns) = 1
    /\ IncludeFailure => Cardinality(Unknowns) = 1

\* a failure two calls deep has been propagated to the end of the run
C6_Witness ==
    /\ IncludeFailure
    /\ Cardinality(Unknowns) = 1
    /\ \E k \in Unknowns : cout[k].file # InputFile

----------------------------------------------------------------------------
(* C7 *)

Unresolved(c, file) ==
    /\ c.kind # "plain"
    /\ InNoSearchDir(c.name)
    /\ c.kind = "local" => ~Exists(Join(ParentPath(file), c.name))

\* C7: every unknown-include message names a file and a line of that file
\* that holds a directive; when that directive is unresolved, the message
\* names the directive's raw name.
C7_DiagnosticLocation ==
    \A k \in Unknowns :
       /\ Exists(cout[k].file)
       /\ cout[k].line \in 1..Len(files[cout[k].file])
       /\ LET c == Classify(files[cout[k].file][cout[k].line]) IN
          /\ c.kind # "plain"
          /\ Unresolved(c, cout[k].file) => cout[k].name = c.name

\* line 3 of the input is reported after a nested file of three lines was
\* expanded from line 1
C7_Witness ==
    /\ IncludeFailure
    /\ cout = <<UnknownMsg(<<"b">>, InputFile, 3)>>
    /\ Unresolved(Classify(files[InputFile][3]), InputFile)
    /\ Classify(files[InputFile][1]).kind = "local"
    /\ Len(outFile) >= 3

----------------------------------------------------------------------------
(* C8 *)

\* C8: once the output file has been opened, every step leaves the lines
\* already in it in place: the output before a step is a prefix of the
\* output after it.
C8_AppendOnly == [][pc # "start" => IsPrefix(outFile, outFile')]_vars

\* a run that failed after writing two lines still has them
C8_Witness ==
    /\ IncludeFailure
    /\ Len(outFile) = 2
    /\ Cardinality(Unknowns) = 1

----------------------------------------------------------------------------
(* C9 *)

DriverOpenFails == ~CanOpen(InputFile) \/ ~outputOpenable

\* C9: when the input or the output file cannot be opened, ProcessInclude
\* is never called, no unknown-include message is written, nothing is
\* appended to the output, and Preprocess returns false.
C9_DriverOpenFailure ==
    DriverOpenFails =>
        /\ stack = <<>>
        /\ pc # "run"
        /\ Unknowns = {}
        /\ outFile = OldOutput
        /\ pc = "done" => result = FALSE /\ Len(cout) = 1

\* the input has lines and can be read, but the output cannot be opened
C9_Witness ==
    /\ pc = "done"
    /\ ~outputOpenable
    /\ CanOpen(InputFile)
    /\ Len(files[InputFile]) = MaxLines
    /\ cout = <<DriverMsg("output", OutputFile)>>

----------------------------------------------------------------------------
(* C10 *)

\* C10: when the input file cannot be opened, the ofstream is never
\* constructed and the output file keeps its old contents.
C10_NoOutputOnInputFailure ==
    ~CanOpen(InputFile) =>
        /\ ofs = "none"
        /\ outFile = OldOutput
        /\ pc = "done" => result = FALSE

\* the input is missing while the output could have been opened
C10_Witness ==
    /\ pc = "done"
    /\ ~Exists(InputFile)
    /\ outputOpenable
    /\ cout = <<DriverMsg("input", InputFile)>>

----------------------------------------------------------------------------
(* C11 *)

\* the file a directive line of frame f resolves to
ResolvedFile(f) ==
    IF LineClass[NextLine(f)].kind = "local"
    THEN ResolveLocal(f.file, LineClass[NextLine(f)].name)
    ELSE ResolveGlobal(f.file, LineClass[NextLine(f)].name)

\* the innermost call is about to read a directive that resolves to a file
\* which is being expanded already
CycleReached ==
    /\ pc = "run" /\ stack # <<>> /\ AtLine(Top)
    /\ Classify(NextLine(Top)).kind # "plain"
    /\ ResolvedFile(Top).found
    /\ \E k \in 1..Len(stack) : stack[k].file = ResolvedFile(Top).full_path

\* some file is being expanded by two calls at once
Repeated ==
    \E j, k \in 1..Len(stack) : j < k /\ stack[j].file = stack[k].file

\* C11: a directive that resolves to a file being expanded is entered like
\* any other (nothing guards against it); from then on some file is always
\* on the stack twice and Preprocess never returns, and the depth of the
\* recursion reaches every depth explored.
C11_UnboundedRecursion ==
    /\ [][CycleReached => Pushed /\ Repeated']_vars
    /\ [][Repeated => Repeated' /\ pc' = "run"]_vars
    /\ CycleReached ~> (Len(stack) = MaxDepth /\ pc = "run")

\* the recursion stands at the deepest level explored, every frame but the
\* first on the same file, which has expanded another file on its way
C11_Witness ==
    /\ pc = "run"
    /\ Len(stack) = MaxDepth
    /\ \A k \in 2..Len(stack) : stack[k].file = stack[2].file
    /\ stack[2].pos = 2
    /\ Repeated

----------------------------------------------------------------------------
(* C12 *)

Lines(out) == {out[n] : n \in 1..Len(out)}

\* C12: a call that returns true has read its file to the end and no
\* unknown-include message has been written; when Preprocess returns true
\* nothing at all has been written to standard output, every directive of
\* the input resolves to a file that can be opened and every other line of
\* the input is in the output.
C12_TrueOnlyIfComplete ==
    /\ \A k \in 1..Len(stack) :
          stack[k].pc = "ret" /\ stack[k].success =>
              /\ stack[k].pos = Len(files[stack[k].file])
              /\ Unknowns = {}
    /\ pc = "done" /\ result =>
          /\ cout = <<>>
          /\ \A n \in 1..Len(files[InputFile]) :
                LET line == files[InputFile][n]
                    f == [file |-> InputFile, pos |-> n - 1]
                IN  IF Classify(line).kind = "plain"
                    THEN line \in Lines(outFile)
                    ELSE /\ ResolvedFile(f).found
                         /\ CanOpen(ResolvedFile(f).full_path)

\* a run over three lines with a directive in the middle returned true
C12_Witness ==
    /\ pc = "done" /\ result
    /\ Len(files[InputFile]) = 3
    /\ Classify(files[InputFile][2]).kind # "plain"
    /\ Len(outFile) >= 3

----------------------------------------------------------------------------
(* C13 *)

\* the line is no directive: the whole line matches neither pattern
NoDirective(line) ==
    ~WholeLine(line, "q", "q") /\ ~WholeLine(line, "<", ">")

\* C13: when both files can be opened and no line of the input is an
\* include directive, Preprocess returns true and the output is the input,
\* line for line.
C13_Identity ==
    (/\ pc = "done" /\ ofs = "open"
     /\ \A n \in 1..Len(files[InputFile]) :
           NoDirective(files[InputFile][n]))
    => result /\ outFile = files[InputFile]

----------------------------------------------------------------------------
(* C14 *)

\* the step consults the search list for the directive it is at
ConsultsSearchList ==
    \/ DirectiveStep("global")
    \/ /\ DirectiveStep("local")
       /\ ~Exists(Join(ParentPath(Top.file), DirectiveName))

\* C14: whenever the search list is consulted and some directory has the
\* name, exactly one call is made, on the candidate of the first such
\* directory in list order.
C14_SearchListPriority ==
    [][ConsultsSearchList /\ ~InNoSearchDir(DirectiveName) =>
        /\ Pushed
        /\ \A k \in 1..Len(stack) : stack'[k].file = stack[k].file
        /\ Last(stack').file =
              Candidate(Min({k \in 1..Len(IncludeDirs) :
                                Exists(Candidate(k, DirectiveName))}),
                        DirectiveName)]_vars

\* a global directive entered the file of the first directory although
\* the second directory has the name too
C14_Witness ==
    /\ Len(stack) = 2
    /\ stack[1].file = InputFile
    /\ Classify(files[InputFile][stack[1].pos]).kind = "global"
    /\ stack[2].file = <<"i", "/", "b">>
    /\ Exists(<<"j", "/", "b">>)
    /\ stack[2].pc = "loop"

----------------------------------------------------------------------------
(* C15 *)

\* C15: no line matches both directive patterns.
C15_AtMostOnePattern ==
    ~(include_local(mline).matched /\ include_global(mline).matched)

----------------------------------------------------------------------------
(* C16 *)

\* the innermost call, made by a directive, is about to open a file that
\* exists and cannot be opened
UnreadableInclude ==
    /\ pc = "run" /\ Len(stack) > 1
    /\ Top.pc = "open"
    /\ Exists(Top.file) /\ ~CanOpen(Top.file)

\* C16: opening an included file that exists and cannot be opened writes
\* one message with the file's basename, the including file and the line
\* of the directive, writes nothing to the output and fails the call; after
\* it no other file is entered, and the run ends false with that message
\* alone.
C16_UnreadableInclude ==
    /\ [][UnreadableInclude =>
            /\ cout' = Append(cout,
                   UnknownMsg(Filename(Top.file),
                              stack[Len(stack) - 1].file,
                              stack[Len(stack) - 1].pos))
            /\ outFile' = outFile
            /\ Len(stack') = Len(stack)
            /\ ~Last(stack').success /\ Last(stack').pc = "ret"]_vars
    /\ [][(\E k \in 1..Len(stack) : ~stack[k].success) =>
            /\ Len(stack') < Len(stack)
            /\ cout' = cout
            /\ outFile' = outFile]_vars
    /\ [](pc = "done" /\ ~result /\ ofs = "open" => Len(cout) = 1)

\* s/b exists and cannot be opened, a search directory has a b that can:
\* the run failed on line 2 of the input with line 1 in the output
C16_Witness ==
    /\ IncludeFailure
    /\ Exists(<<"s", "/", "b">>) /\ ~CanOpen(<<"s", "/", "b">>)
    /\ CanOpen(<<"i", "/", "b">>)
    /\ cout = <<UnknownMsg(<<"b">>, InputFile, 2)>>
    /\ Classify(files[InputFile][2]).kind = "local"
    /\ outFile = <<files[InputFile][1]>>

----------------------------------------------------------------------------
(* C17 *)

\* the files of the frames of stk, outermost first
FilesOf(stk) == [k \in 1..Len(stk) |-> stk[k].file]

\* the frames that have opened their file: past the open, and it succeeded
Opened(stk) == SelectSeq(stk, LAMBDA f : f.pc # "open" /\ CanOpen(f.file))

\* C17 as stated: once the innermost call is past its open statement, the
\* open source files are the files of the frames on the stack, one a frame.
C17_OpenFilesAreStack ==
    (pc = "run" /\ stack # <<>> /\ Top.pc # "open") =>
        openFiles = FilesOf(stack)

\* C17 amended: the open source files are the files of the frames whose
\* open succeeded, in stack order: one for every frame except an innermost
\* frame that has not opened its file or could not open it, which holds
\* none; a frame's file is closed by the step that returns from it, with
\* either result, and none is open before or after the run.
C17_OpenFilesAreOpenedFrames ==
    /\ openFiles = FilesOf(Opened(stack))
    /\ Len(stack) - 1 <= Len(openFiles)
    /\ \A k \in 1..Len(stack) - 1 : openFiles[k] = stack[k].file
    /\ pc # "run" => openFiles = <<>>

\* two files are open, one for each of two nested calls, and the inner
\* call, failed by a directive of its file, is about to return
C17_Witness ==
    /\ pc = "run" /\ Len(stack) = 2
    /\ openFiles = <<InputFile, Top.file>>
    /\ Top.pc = "ret" /\ ~Top.success
    /\ Unknowns # {}

----------------------------------------------------------------------------
(* C18 *)

\* the files that the directives of file f resolve to
Includes(f) ==
    IF f \notin DOMAIN files THEN {}
    ELSE {r.full_path :
            r \in {x \in {ResolvedFile([file |-> f, pos |-> n - 1]) :
                             n \in {m \in 1..Len(files[f]) :
                                      LineClass[files[f][m]].kind # "plain"}} :
                     x.found}}

\* the files reached from the set S along at most n directives
RECURSIVE Reach(_, _)
Reach(S, n) ==
    IF n = 0 THEN S
    ELSE Reach(S \cup UNION {Includes(f) : f \in S}, n - 1)

\* no file is reachable from itself through resolvable directives
Acyclic ==
    \A f \in DOMAIN files :
        f \notin Reach(Includes(f), Cardinality(DOMAIN files))

\* the number of files on the longest include chain that starts at f
RECURSIVE Longest(_, _)
Longest(f, n) ==
    IF n = 0 \/ Includes(f) = {} THEN 1
    ELSE 1 + Max({Longest(g, n - 1) : g \in Includes(f)})

\* C18: when no file is reachable from itself through resolvable
\* directives, Preprocess eventually returns, and the number of active
\* ProcessInclude calls never exceeds the length of the longest include
\* chain that starts at the input file.
C18_AcyclicTerminates ==
    /\ [](Acyclic =>
            Len(stack) <= Longest(InputFile, Cardinality(DOMAIN files)))
    /\ (pc = "start" /\ Acyclic) ~> (pc = "done")

\* a run over a chain of three files, input to b to c, has returned true
C18_Witness ==
    /\ pc = "done" /\ result
    /\ Acyclic
    /\ Longest(InputFile, Cardinality(DOMAIN files)) = 3
    /\ \E n \in 1..Len(outFile) : outFile[n] = files[<<"j", "/", "c">>][1]

====
